---------------------------- MODULE Spec2Model ----------------------------
(***************************************************************************)
(* A model of the node-provisioning core of kubeclipper:                   *)
(*   - the registry reconciler        (pkg/apis/core/v1/cri_utils.go)      *)
(*   - the Calico CNI runnable        (pkg/scheme/core/v1/cni/calico.go)   *)
(*   - the containerd trust store     (pkg/scheme/core/v1/cri/containerd.go)*)
(*   - the container teardown and the kubeadm join-command extraction      *)
(*                                    (pkg/scheme/core/v1/k8s/utils.go)    *)
(* Strings that the code compares or concatenates are sequences of byte    *)
(* values; strings that the code only tests for equality are TLA+ strings. *)
(***************************************************************************)
EXTENDS Integers, Sequences, FiniteSets, TLC

VARIABLES
    pc,             \* position of the call being modelled
    ret,            \* what the finished call returned
    cluster,        \* the *v1.Cluster the reconciler works on
    clusterAtCall,  \* the cluster as it was when getClusterCRIRegistries was called
    registries,     \* the merged []v1.RegistrySpec
    clusterOperator,\* what h.clusterOperator.ListNodes answers
    runnable,       \* the CalicoRunnable, or the ContainerdRunnable of InitStep
    initStep,       \* the InitStep calls made: their number, the last arguments
    configure,      \* the ContainerdRegistryConfigure and the options of its call
    fsys,           \* the node's file system: ConfigDir and the daemon config
    systemd,        \* the containerd service as systemctl sees it
    containerd,     \* the containers and tasks of the namespace
    loop,           \* the local variables of deleteContainer
    events,         \* the containerd calls deleteContainer has made, in order
    output          \* the kubeadm output handed to extractJoinCommands

regVars == <<cluster, clusterAtCall, registries, clusterOperator>>
cniVars == <<runnable, initStep>>
criVars == <<configure, fsys, systemd>>
k8sVars == <<containerd, loop, events, output>>
vars == <<pc, ret, regVars, cniVars, criVars, k8sVars>>

NoValue == [none |-> TRUE]

RegIdle ==
    /\ cluster = NoValue /\ clusterAtCall = NoValue
    /\ registries = <<>> /\ clusterOperator = NoValue
CniIdle == runnable = NoValue /\ initStep = NoValue
CriIdle == configure = NoValue /\ fsys = NoValue /\ systemd = NoValue
K8sIdle ==
    /\ containerd = NoValue /\ loop = NoValue
    /\ events = <<>> /\ output = NoValue

-----------------------------------------------------------------------------
(* Bounds of the model *)

MaxMerge == 4        \* longest slice appendUniqueRegistry is applied to
MaxInsecure == 2     \* longest cluster.ContainerRuntime.InsecureRegistry
MaxExplicit == 3     \* longest cluster.ContainerRuntime.Registries
MaxDiff == 2         \* longest registry list handed to registriesEqual
MaxNodes == 2        \* most nodes ListNodes returns
MaxFaults == 1       \* most operations of the node that fail during one Install
MaxCtrs == 3         \* most containers in the namespace
MaxLines == 3        \* most lines of kubeadm output
MaxInitSteps == 2    \* most InitStep calls on one ContainerdRunnable

-----------------------------------------------------------------------------
(* Strings as byte sequences *)

StrHttp == <<104, 116, 116, 112>>           \* "http"
StrHttps == <<104, 116, 116, 112, 115>>     \* "https"
HostA == <<97>>                             \* "a"
HostSX == <<115, 120>>                      \* "sx"
HostX == <<120>>                            \* "x"
Hosts == {HostA, HostSX, HostX}

\* strings.Compare: -1, 0 or 1 by lexicographic byte order
RECURSIVE Compare(_, _)
Compare(a, b) ==
    IF a = <<>> /\ b = <<>> THEN 0
    ELSE IF a = <<>> THEN -1
    ELSE IF b = <<>> THEN 1
    ELSE IF Head(a) < Head(b) THEN -1
    ELSE IF Head(a) > Head(b) THEN 1
    ELSE Compare(Tail(a), Tail(b))

-----------------------------------------------------------------------------
(* v1.RegistrySpec values.  RegistryAuth is a pointer: "nil" or an address. *)

RegistrySpec(scheme, host, skip, ca, auth) ==
    [Scheme |-> scheme, Host |-> host, SkipVerify |-> skip, CA |-> ca,
     RegistryAuth |-> auth]

\* the two entries an insecure host expands to
HttpEntry(host) == RegistrySpec(StrHttp, host, FALSE, "", "nil")
HttpsSkipEntry(host) == RegistrySpec(StrHttps, host, TRUE, "", "nil")

\* the identity key of appendUniqueRegistry
Key(r) == r.Scheme \o r.Host

\* sort.Find over the keys of s: the smallest index in [i, j) (0-based) whose
\* key is not below key, by binary search
RECURSIVE FindKey(_, _, _, _)
FindKey(key, s, i, j) ==
    IF i < j
    THEN LET h == (i + j) \div 2
         IN  IF Compare(key, Key(s[h + 1])) > 0
             THEN FindKey(key, s, h + 1, j)
             ELSE FindKey(key, s, i, h)
    ELSE i

\* one iteration of the loop of appendUniqueRegistry
InsertAlways(s, r) ==
    LET idx == FindKey(Key(r), s, 0, Len(s))
    IN  IF idx = Len(s) THEN Append(s, r)
        ELSE [SubSeq(s, 1, idx + 1) \o SubSeq(s, idx + 1, Len(s))
                 EXCEPT ![idx + 1] = r]

InsertUnique(s, r) ==
    LET key == Key(r)
        idx == FindKey(key, s, 0, Len(s))
        ok  == idx < Len(s) /\ Compare(key, Key(s[idx + 1])) = 0
    IN  IF ~ok
        THEN IF idx = Len(s)
             THEN Append(s, r)
             ELSE [SubSeq(s, 1, idx + 1) \o SubSeq(s, idx + 1, Len(s))
                      EXCEPT ![idx + 1] = r]
        ELSE s

RECURSIVE appendUniqueRegistry(_, _)
appendUniqueRegistry(s, items) ==
    IF items = <<>> THEN s
    ELSE appendUniqueRegistry(InsertUnique(s, Head(items)), Tail(items))

-----------------------------------------------------------------------------
(* The registry store behind clusterOperator.GetRegistry *)

CAEntryX == RegistrySpec(StrHttps, HostX, FALSE, "ca-x", "auth-1")
CAEntryA == RegistrySpec(StrHttps, HostA, FALSE, "ca-a", "nil")
PlainEntrySX == RegistrySpec(StrHttp, HostSX, FALSE, "", "auth-2")

\* GetRegistry(name): a resolved spec, a not-found error or another error
GetRegistry(name) ==
    CASE name = "rx" -> [err |-> "nil", spec |-> CAEntryX]
      [] name = "ra" -> [err |-> "nil", spec |-> CAEntryA]
      [] name = "rsx" -> [err |-> "nil", spec |-> PlainEntrySX]
      [] name = "stale" -> [err |-> "notfound", spec |-> NoValue]
      [] OTHER -> [err |-> "unavailable", spec |-> NoValue]

ResolvedSpecs == {CAEntryX, CAEntryA, PlainEntrySX}

\* every RegistrySpec the reconciler can hand to appendUniqueRegistry
MergeItems ==
    {HttpEntry(h) : h \in Hosts} \cup {HttpsSkipEntry(h) : h \in Hosts}
        \cup ResolvedSpecs

-----------------------------------------------------------------------------
(* Specification SpecMerge: appendUniqueRegistry applied again and again *)

InitMerge ==
    /\ pc = "merge"
    /\ registries = <<>>
    /\ ret = NoValue
    /\ cluster = NoValue /\ clusterAtCall = NoValue /\ clusterOperator = NoValue
    /\ CniIdle /\ CriIdle /\ K8sIdle

AppendOne ==
    /\ pc = "merge"
    /\ Len(registries) < MaxMerge
    /\ \E r \in MergeItems :
          registries' = appendUniqueRegistry(registries, <<r>>)
    /\ UNCHANGED <<pc, ret, cluster, clusterAtCall, clusterOperator>>
    /\ UNCHANGED <<cniVars, criVars, k8sVars>>

AppendPair ==
    /\ pc = "merge"
    /\ Len(registries) + 1 < MaxMerge
    /\ \E h \in Hosts :
          registries' =
              appendUniqueRegistry(registries, <<HttpEntry(h), HttpsSkipEntry(h)>>)
    /\ UNCHANGED <<pc, ret, cluster, clusterAtCall, clusterOperator>>
    /\ UNCHANGED <<cniVars, criVars, k8sVars>>

NextMerge == AppendOne \/ AppendPair

SpecMerge == InitMerge /\ [][NextMerge]_vars

\* a slice is canonical when its keys ascend strictly
Canonical(s) ==
    \A i \in 1..Len(s) : \A j \in 1..Len(s) :
        i < j => Compare(Key(s[i]), Key(s[j])) < 0

\* C2: after any sequence of appendUniqueRegistry inserts the slice has no two
\* entries with the same identity key and is sorted ascending by identity key.
C2_MergeCanonical == pc = "merge" => Canonical(registries)

\* an insert landed in front of an existing entry and a duplicate key was refused
C2_Witness ==
    /\ pc = "merge"
    /\ Len(registries) = 3
    /\ registries[1] = HttpEntry(HostA)
    /\ registries[2] = HttpEntry(HostSX)
    /\ registries[3] = HttpEntry(HostX)

-----------------------------------------------------------------------------
(* getClusterCRIRegistries *)

\* sort.Strings: insertion of x into an ascending list
RECURSIVE SortedInsert(_, _)
SortedInsert(list, x) ==
    IF list = <<>> THEN <<x>>
    ELSE IF Compare(x, Head(list)) <= 0 THEN <<x>> \o list
    ELSE <<Head(list)>> \o SortedInsert(Tail(list), x)

RECURSIVE SortStrings(_)
SortStrings(list) ==
    IF list = <<>> THEN <<>>
    ELSE SortedInsert(SortStrings(Tail(list)), Head(list))

\* sort.Find over a list of strings
RECURSIVE FindStr(_, _, _, _)
FindStr(x, list, i, j) ==
    IF i < j
    THEN LET h == (i + j) \div 2
         IN  IF Compare(x, list[h + 1]) > 0
             THEN FindStr(x, list, h + 1, j)
             ELSE FindStr(x, list, i, h)
    ELSE i

\* the body of the loop over c.Addons
AddMirror(insecureRegistry, a) ==
    IF ~a.parses THEN insecureRegistry
    ELSE IF a.ImageRepoMirror = <<>> THEN insecureRegistry
    ELSE LET m   == a.ImageRepoMirror
             n   == Len(insecureRegistry)
             idx == FindStr(m, insecureRegistry, 0, n)
             ok  == idx < n /\ Compare(m, insecureRegistry[idx + 1]) = 0
         IN  IF ok THEN insecureRegistry
             ELSE IF idx = n THEN Append(insecureRegistry, m)
             ELSE [SubSeq(insecureRegistry, 1, idx + 1)
                       \o SubSeq(insecureRegistry, idx + 1, n)
                     EXCEPT ![idx + 1] = m]

RECURSIVE AddMirrors(_, _)
AddMirrors(insecureRegistry, addons) ==
    IF addons = <<>> THEN insecureRegistry
    ELSE AddMirrors(AddMirror(insecureRegistry, Head(addons)), Tail(addons))

\* the loop over the insecure hosts
RECURSIVE MergeInsecure(_, _)
MergeInsecure(regs, hosts) ==
    IF hosts = <<>> THEN regs
    ELSE MergeInsecure(
             appendUniqueRegistry(regs,
                 <<HttpEntry(Head(hosts)), HttpsSkipEntry(Head(hosts))>>),
             Tail(hosts))

IsLiteral(reg) == reg.RegistryRef = "nil" \/ reg.RegistryRef = ""

\* The body of the loop over c.ContainerRuntime.Registries.  st.arr is the
\* backing array that validRegistries shares with the cluster's list, st.valid
\* is len(validRegistries), st.regs the merged set, st.err the error returned.
ExplicitStepKeepStale(st, reg) ==
    IF IsLiteral(reg)
    THEN [st EXCEPT
            !.regs = appendUniqueRegistry(st.regs,
                        <<HttpEntry(reg.InsecureRegistry),
                          HttpsSkipEntry(reg.InsecureRegistry)>>),
            !.arr[st.valid + 1] = [reg EXCEPT !.RegistryRef = "nil"],
            !.valid = st.valid + 1]
    ELSE LET got == GetRegistry(reg.RegistryRef)
         IN  IF got.err = "notfound"
             THEN [st EXCEPT !.arr[st.valid + 1] = reg, !.valid = st.valid + 1]
             ELSE IF got.err # "nil"
             THEN [st EXCEPT !.err = got.err]
             ELSE [st EXCEPT
                     !.regs = appendUniqueRegistry(st.regs, <<got.spec>>),
                     !.arr[st.valid + 1] = reg,
                     !.valid = st.valid + 1]

ExplicitStep(st, reg) ==
    IF IsLiteral(reg)
    THEN [st EXCEPT
            !.regs = appendUniqueRegistry(st.regs,
                        <<HttpEntry(reg.InsecureRegistry),
                          HttpsSkipEntry(reg.InsecureRegistry)>>),
            !.arr[st.valid + 1] = [reg EXCEPT !.RegistryRef = "nil"],
            !.valid = st.valid + 1]
    ELSE LET got == GetRegistry(reg.RegistryRef)
         IN  IF got.err = "notfound"
             THEN st
             ELSE IF got.err # "nil"
             THEN [st EXCEPT !.err = got.err]
             ELSE [st EXCEPT
                     !.regs = appendUniqueRegistry(st.regs, <<got.spec>>),
                     !.arr[st.valid + 1] = reg,
                     !.valid = st.valid + 1]

\* the range loop: element i (1-based) of the n the slice had when the loop began
RECURSIVE ExplicitLoop(_, _, _)
ExplicitLoop(st, i, n) ==
    IF i > n \/ st.err # "nil" THEN st
    ELSE ExplicitLoop(ExplicitStep(st, st.arr[i]), i + 1, n)

\* the whole function: the returned pair and the cluster's list afterwards
getClusterCRIRegistries(c) ==
    LET insecureRegistry ==
            AddMirrors(SortStrings(c.InsecureRegistry), c.Addons)
        start == [arr |-> c.Registries.arr, valid |-> 0,
                  regs |-> MergeInsecure(<<>>, insecureRegistry), err |-> "nil"]
        final == ExplicitLoop(start, 1, c.Registries.len)
    IN  IF final.err # "nil"
        THEN [registries |-> <<>>, err |-> final.err,
              Registries |-> [arr |-> final.arr, len |-> c.Registries.len]]
        ELSE [registries |-> final.regs, err |-> "nil",
              Registries |-> [arr |-> final.arr, len |-> final.valid]]

\* the elements of a slice
Elems(slice) == SubSeq(slice.arr, 1, slice.len)

-----------------------------------------------------------------------------
(* Specification SpecRegistries: one call of getClusterCRIRegistries *)

SeqsUpTo(S, n) == UNION {[1..k -> S] : k \in 0..n}

InsecureHosts == {HostSX, HostX}
AddonUnparsable == [parses |-> FALSE, ImageRepoMirror |-> <<>>]
AddonNoMirror == [parses |-> TRUE, ImageRepoMirror |-> <<>>]
AddonMirror(h) == [parses |-> TRUE, ImageRepoMirror |-> h]
AddonLists ==
    {<<>>, <<AddonUnparsable>>, <<AddonNoMirror>>, <<AddonMirror(HostA)>>,
     <<AddonMirror(HostX), AddonMirror(HostA)>>}
ExplicitEntries ==
    {[InsecureRegistry |-> HostX, RegistryRef |-> "nil"],
     [InsecureRegistry |-> HostA, RegistryRef |-> ""],
     [InsecureRegistry |-> <<>>, RegistryRef |-> "rx"],
     [InsecureRegistry |-> <<>>, RegistryRef |-> "stale"],
     [InsecureRegistry |-> <<>>, RegistryRef |-> "down"]}

InitRegistries ==
    /\ pc = "reconcile"
    /\ \E ins \in SeqsUpTo(InsecureHosts, MaxInsecure) :
       \E ads \in AddonLists :
       \E ex \in SeqsUpTo(ExplicitEntries, MaxExplicit) :
          cluster = [InsecureRegistry |-> ins, Addons |-> ads,
                     Registries |-> [arr |-> ex, len |-> Len(ex)]]
    /\ clusterAtCall = NoValue
    /\ registries = <<>>
    /\ clusterOperator = NoValue
    /\ ret = NoValue
    /\ CniIdle /\ CriIdle /\ K8sIdle

GetClusterCRIRegistries ==
    /\ pc = "reconcile"
    /\ LET r == getClusterCRIRegistries(cluster)
       IN  /\ registries' = r.registries
           /\ ret' = [err |-> r.err]
           /\ cluster' = [cluster EXCEPT !.Registries = r.Registries]
    /\ clusterAtCall' = cluster
    /\ pc' = "reconciled"
    /\ UNCHANGED <<clusterOperator, cniVars, criVars, k8sVars>>

NextRegistries == GetClusterCRIRegistries

SpecRegistries == InitRegistries /\ [][NextRegistries]_vars

\* the insecure hosts the sources of a cluster contribute
InsecureHostsOf(c) ==
    {c.InsecureRegistry[i] : i \in 1..Len(c.InsecureRegistry)}
    \cup {c.Addons[i].ImageRepoMirror :
            i \in {k \in 1..Len(c.Addons) :
                     c.Addons[k].parses /\ c.Addons[k].ImageRepoMirror # <<>>}}
    \cup {Elems(c.Registries)[i].InsecureRegistry :
            i \in {k \in 1..c.Registries.len : IsLiteral(c.Registries.arr[k])}}

CountOf(s, P(_)) == Cardinality({i \in 1..Len(s) : P(s[i])})

\* C3: for every insecure host h of any source the returned set holds exactly
\* one http entry for h and exactly one https entry for h with SkipVerify set.
C3_InsecurePairPresent ==
    (pc = "reconciled" /\ ret.err = "nil") =>
        \A h \in InsecureHostsOf(clusterAtCall) :
            /\ CountOf(registries,
                       LAMBDA r : r.Scheme = StrHttp /\ r.Host = h) = 1
            /\ CountOf(registries,
                       LAMBDA r : r.Scheme = StrHttps /\ r.Host = h
                                    /\ r.SkipVerify) = 1

IsStale(reg) == ~IsLiteral(reg) /\ GetRegistry(reg.RegistryRef).err = "notfound"
Fails(reg) ==
    ~IsLiteral(reg) /\ GetRegistry(reg.RegistryRef).err \notin {"nil", "notfound"}

\* the list with the stale references left out, as the loop stores the rest
WithoutStale(list) ==
    LET kept == SelectSeq(list, LAMBDA reg : ~IsStale(reg))
    IN  [i \in 1..Len(kept) |->
            IF IsLiteral(kept[i]) THEN [kept[i] EXCEPT !.RegistryRef = "nil"]
            ELSE kept[i]]

\* C5: when no lookup fails with an error other than not-found, the call
\* succeeds, the cluster's list is the original list without its stale
\* references, in the original order, and the returned set is the one the
\* call returns for the list with the stale references absent.
C5_StaleDropped ==
    (pc = "reconciled"
        /\ \A i \in 1..clusterAtCall.Registries.len :
              ~Fails(clusterAtCall.Registries.arr[i])) =>
        LET orig == Elems(clusterAtCall.Registries)
            kept == WithoutStale(orig)
        IN  /\ ret.err = "nil"
            /\ Elems(cluster.Registries) = kept
            /\ \A i \in 1..Len(kept) : ~IsStale(kept[i])
            /\ registries =
                 getClusterCRIRegistries(
                     [clusterAtCall EXCEPT
                        !.Registries = [arr |-> kept, len |-> Len(kept)]]
                 ).registries

\* a stale reference stood between two entries that resolve, and was dropped
C5_Witness ==
    /\ pc = "reconciled"
    /\ ret.err = "nil"
    /\ clusterAtCall.Registries.len = 3
    /\ IsLiteral(clusterAtCall.Registries.arr[1])
    /\ IsStale(clusterAtCall.Registries.arr[2])
    /\ clusterAtCall.Registries.arr[3].RegistryRef = "rx"
    /\ cluster.Registries.len = 2
    /\ CAEntryX \in {registries[i] : i \in 1..Len(registries)}

\* C18: when the call aborts on a lookup error other than not-found, it
\* returns no registries and the cluster's explicit-registry list is, element
\* for element, the list it was before the call.
C18_AbortLeavesListIntact ==
    (pc = "reconciled" /\ ret.err # "nil") =>
        /\ registries = <<>>
        /\ Elems(cluster.Registries) = Elems(clusterAtCall.Registries)

\* the entries the sources of a cluster offer to the merge, in the order the
\* call offers them: the pair of every insecure host (cluster list and addon
\* mirrors), then what each explicit registry contributes, in list order
SourceHosts(c) == AddMirrors(SortStrings(c.InsecureRegistry), c.Addons)
PairsOf(hosts) ==
    [k \in 1..(2 * Len(hosts)) |->
        IF k % 2 = 1 THEN HttpEntry(hosts[(k + 1) \div 2])
        ELSE HttpsSkipEntry(hosts[k \div 2])]
RECURSIVE ExplicitOffered(_)
ExplicitOffered(list) ==
    IF list = <<>> THEN <<>>
    ELSE LET reg == Head(list)
         IN  (IF IsLiteral(reg) THEN PairsOf(<<reg.InsecureRegistry>>)
              ELSE IF GetRegistry(reg.RegistryRef).err = "nil"
              THEN <<GetRegistry(reg.RegistryRef).spec>>
              ELSE <<>>) \o ExplicitOffered(Tail(list))
Offered(c) == PairsOf(SourceHosts(c)) \o ExplicitOffered(Elems(c.Registries))
FirstWith(offered, key) ==
    offered[CHOOSE j \in 1..Len(offered) :
                /\ Key(offered[j]) = key
                /\ \A i \in 1..(j - 1) : Key(offered[i]) # key]
WithKey(s, key) == {s[i] : i \in {k \in 1..Len(s) : Key(s[k]) = key}}
WithSchemeHost(s, scheme, host) ==
    {s[i] : i \in {k \in 1..Len(s) : s[k].Scheme = scheme /\ s[k].Host = host}}

\* C21: of the entries with one identity key that the sources offer, the
\* returned set holds the one offered first and no other; so for every
\* insecure host h of the cluster list or of an addon mirror the only https
\* entry for h in the result is {https, h, SkipVerify: true}, and the https
\* entry of a named registry for h, its CA and its credentials are dropped.
C21_FirstInsertedWins ==
    (pc = "reconciled" /\ ret.err = "nil") =>
        LET offered == Offered(clusterAtCall)
            hosts == SourceHosts(clusterAtCall)
        IN  /\ \A i \in 1..Len(offered) :
                  WithKey(registries, Key(offered[i]))
                    = {FirstWith(offered, Key(offered[i]))}
            /\ \A k \in 1..Len(hosts) :
                  WithSchemeHost(registries, StrHttps, hosts[k])
                    = {HttpsSkipEntry(hosts[k])}

\* the first half of C21 alone: per identity key, the first offered entry
C21_FirstOfferedPerKey ==
    (pc = "reconciled" /\ ret.err = "nil") =>
        LET offered == Offered(clusterAtCall)
        IN  \A i \in 1..Len(offered) :
                WithKey(registries, Key(offered[i]))
                  = {FirstWith(offered, Key(offered[i]))}

-----------------------------------------------------------------------------
(* registriesEqual, getCRIRegistriesStep, criRegistryUpdateStep *)

\* the loop of registriesEqual from index i on
RECURSIVE EqualFrom(_, _, _)
EqualFrom(a, b, i) ==
    IF i > Len(a) THEN TRUE
    ELSE IF a[i] # b[i] THEN FALSE
    ELSE EqualFrom(a, b, i + 1)

RECURSIVE EqualKeysFrom(_, _, _)
EqualKeysFrom(a, b, i) ==
    IF i > Len(a) THEN TRUE
    ELSE IF Key(a[i]) # Key(b[i]) THEN FALSE
    ELSE EqualKeysFrom(a, b, i + 1)

registriesEqualByKey(a, b) ==
    IF Len(a) # Len(b) THEN FALSE ELSE EqualKeysFrom(a, b, 1)

registriesEqual(a, b) ==
    IF Len(a) # Len(b) THEN FALSE ELSE EqualFrom(a, b, 1)

\* clustercontroller.CRIRegistryUpdateStep: the update step for the given nodes
CRIRegistryUpdateStep(c, regs, wrapNodes) ==
    [step |-> [Name |-> "updateCRIRegistry", Nodes |-> wrapNodes,
               Registries |-> regs],
     err |-> "nil", panic |-> FALSE]

\* the loop of criRegistryUpdateStep: wrapNodes[i] = &nodes[i] on a slice made
\* with length 0 panics (index out of range) as soon as it runs
RECURSIVE WrapLoop(_, _, _)
WrapLoop(wrapNodes, nodes, i) ==
    IF i > Len(nodes) THEN [panic |-> FALSE, wrapNodes |-> wrapNodes]
    ELSE IF i > Len(wrapNodes) THEN [panic |-> TRUE, wrapNodes |-> wrapNodes]
    ELSE WrapLoop([wrapNodes EXCEPT ![i] = nodes[i]], nodes, i + 1)

criRegistryUpdateStep(c, regs, nodes) ==
    LET made == <<>>      \* make([]*v1.Node, 0, len(nodes))
        w == WrapLoop(made, nodes, 1)
    IN  IF w.panic THEN [step |-> "nil", err |-> "nil", panic |-> TRUE]
        ELSE CRIRegistryUpdateStep(c, regs, w.wrapNodes)

getCRIRegistriesStep(c, regs, operator) ==
    IF ~registriesEqual(c.Status.Registries, regs)
    THEN IF operator.listErr
         THEN [step |-> "nil", err |-> "list", panic |-> FALSE]
         ELSE criRegistryUpdateStep(c, regs, operator.nodes)
    ELSE [step |-> "nil", err |-> "nil", panic |-> FALSE]

-----------------------------------------------------------------------------
(* Specification SpecDiff: the diff and the update step *)

CAEntryXOtherAuth == [CAEntryX EXCEPT !.RegistryAuth = "auth-2"]
DiffItems == {HttpEntry(HostX), CAEntryX, CAEntryXOtherAuth}
NodeNames == {"node-1", "node-2"}

InitDiff ==
    /\ pc = "diff"
    /\ \E recorded \in SeqsUpTo(DiffItems, MaxDiff) :
          cluster = [Name |-> "c1", Status |-> [Registries |-> recorded]]
    /\ registries \in SeqsUpTo(DiffItems, MaxDiff)
    /\ \E ns \in SeqsUpTo(NodeNames, MaxNodes) : \E e \in BOOLEAN :
          clusterOperator = [nodes |-> ns, listErr |-> e]
    /\ clusterAtCall = NoValue
    /\ ret = NoValue
    /\ CniIdle /\ CriIdle /\ K8sIdle

RegistriesEqual ==
    /\ pc = "diff"
    /\ ret' = [equal |-> registriesEqual(cluster.Status.Registries, registries)]
    /\ pc' = "compared"
    /\ UNCHANGED <<regVars, cniVars, criVars, k8sVars>>

GetCRIRegistriesStep ==
    /\ pc = "diff"
    /\ ret' = getCRIRegistriesStep(cluster, registries, clusterOperator)
    /\ pc' = "stepped"
    /\ UNCHANGED <<regVars, cniVars, criVars, k8sVars>>

NextDiff == RegistriesEqual \/ GetCRIRegistriesStep

SpecDiff == InitDiff /\ [][NextDiff]_vars

Shorter(a, b) == IF Len(a) < Len(b) THEN Len(a) ELSE Len(b)

\* C1: when the recorded registries differ from the desired ones and the node
\* query answers, the call returns, without failing, an update step built from
\* every node of the answer; when they are equal it returns no step, no error.
C1_StepForEveryNode ==
    (pc = "stepped" /\ ~clusterOperator.listErr) =>
        IF cluster.Status.Registries # registries
        THEN /\ ~ret.panic
             /\ ret.err = "nil"
             /\ ret.step # "nil"
             /\ ret.step.Nodes = clusterOperator.nodes
        ELSE ret = [step |-> "nil", err |-> "nil", panic |-> FALSE]

\* C4: registriesEqual(A, A) holds for every canonical A, and
\* registriesEqual(A, B) fails exactly when A and B differ in length or in the
\* element at some position.
C4_DiffExact ==
    pc = "compared" =>
        LET a == cluster.Status.Registries
            b == registries
        IN  /\ (Canonical(a) /\ a = b) => ret.equal
            /\ ~ret.equal <=>
                 \/ Len(a) # Len(b)
                 \/ \E i \in 1..Shorter(a, b) : a[i] # b[i]

\* two canonical lists of the same keys that differ in one attribute only
C4_Witness ==
    /\ pc = "compared"
    /\ cluster.Status.Registries = <<CAEntryX, HttpEntry(HostX)>>
    /\ registries = <<CAEntryXOtherAuth, HttpEntry(HostX)>>
    /\ ~ret.equal

-----------------------------------------------------------------------------
(* CalicoRunnable *)

\* CalicoRunnable.CalicoTemplate: the closed table of embedded templates
CalicoTemplate(r) ==
    CASE r.Version = "v3.11.2" -> [template |-> "calicoV3112", err |-> "nil"]
      [] r.Version = "v3.16.10" -> [template |-> "calicoV31610", err |-> "nil"]
      [] r.Version = "v3.21.2" -> [template |-> "calicoV3212", err |-> "nil"]
      [] r.Version = "v3.22.4" -> [template |-> "calicoV3224", err |-> "nil"]
      [] r.Version = "v3.24.5" -> [template |-> "calicoV3245", err |-> "nil"]
      [] r.Version = "v3.26.1" -> [template |-> "calicoV3261", err |-> "nil"]
      [] OTHER -> [template |-> "", err |-> "calico dose not support version"]

\* json.Marshal(runnable): the exported fields, which always encode
Marshal(r) == [bytes |-> [json |-> r], err |-> "nil"]

\* cni.IsHighKubeVersion: at or above the chart threshold
HighKubeVersions == {"v1.27.4"}
KubeVersions == {"v1.18.6", "v1.23.6"} \cup HighKubeVersions
IsHighKubeVersion(kubernetesVersion) == kubernetesVersion \in HighKubeVersions

\* common.Chart.InstallStepsV2: the step that loads the packaged chart
ChartInstallStepsV2(chart, nodes) ==
    [steps |-> <<[Name |-> "chartLoader", Nodes |-> nodes, Payload |-> chart]>>,
     err |-> "nil"]

\* the step constructors of the cni package
RenderYaml(name, bytes, nodes) ==
    [Name |-> "renderYaml", Nodes |-> nodes, Payload |-> bytes]
ApplyYaml(file, nodes) ==
    [Name |-> "applyYaml", Nodes |-> nodes, Payload |-> file]
InstallCalicoRelease(chartFile, valuesFile, nodes) ==
    [Name |-> "installCalicoRelease", Nodes |-> nodes,
     Payload |-> <<chartFile, valuesFile>>]

\* CalicoRunnable.InstallSteps
InstallSteps(r, nodes, kubernetesVersion) ==
    LET m == Marshal(r)
    IN  IF m.err # "nil" THEN [steps |-> <<>>, err |-> m.err]
        ELSE IF IsHighKubeVersion(kubernetesVersion)
        THEN LET chart == [PkgName |-> "calico", Version |-> r.Version,
                           Offline |-> r.Offline]
                 cLoadSteps == ChartInstallStepsV2(chart, nodes)
             IN  IF cLoadSteps.err # "nil"
                 THEN [steps |-> <<>>, err |-> cLoadSteps.err]
                 ELSE [steps |-> cLoadSteps.steps
                                   \o <<RenderYaml("calico", m.bytes, nodes)>>
                                   \o <<InstallCalicoRelease(
                                          <<".calico", chart.Version, "chart">>,
                                          "calico.yaml", nodes)>>,
                       err |-> "nil"]
        ELSE [steps |-> <<RenderYaml("calico", m.bytes, nodes),
                          ApplyYaml("calico.yaml", nodes)>>,
              err |-> "nil"]

\* cni.LoadImage: the step that loads the packaged images on the nodes
LoadImage(name, bytes, nodes) ==
    [Name |-> "loadImage", Nodes |-> nodes, Payload |-> bytes]

\* a LoadImage that looks at Offline alone
LoadImageWhenOffline(r, nodes) ==
    LET m == Marshal(r)
    IN  IF m.err # "nil" THEN [steps |-> <<>>, err |-> m.err]
        ELSE IF r.Offline
        THEN [steps |-> <<LoadImage("calico", m.bytes, nodes)>>, err |-> "nil"]
        ELSE [steps |-> <<>>, err |-> "nil"]

\* CalicoRunnable.LoadImage
CalicoRunnableLoadImage(r, nodes) ==
    LET m == Marshal(r)
    IN  IF m.err # "nil" THEN [steps |-> <<>>, err |-> m.err]
        ELSE IF r.Offline /\ r.LocalRegistry = ""
        THEN [steps |-> <<LoadImage("calico", m.bytes, nodes)>>, err |-> "nil"]
        ELSE [steps |-> <<>>, err |-> "nil"]

\* tmplutil.RenderTo(w, template, runnable): the executed template is written
\* to w.  A manifest is the sequence of the texts it is made of; calicoV3261
\* mounts the kubelet directory, /var/lib/kubelet unless KubeletDataDir is set.
DefaultKubeletDataDir == "/var/lib/kubelet"
RenderTo(w, template, r) ==
    [w |-> w \o <<template>>
             \o (IF template = "calicoV3261"
                 THEN <<IF r.KubeletDataDir = "" THEN DefaultKubeletDataDir
                        ELSE r.KubeletDataDir>>
                 ELSE <<>>),
     err |-> "nil"]

\* a render that falls back to the newest template for an unmapped version
renderNewestCalicoTo(r, w) ==
    LET calicoTemp == CalicoTemplate(r)
    IN  RenderTo(w, IF calicoTemp.err # "nil" THEN "calicoV3261"
                    ELSE calicoTemp.template, r)

\* CalicoRunnable.renderCalicoTo
renderCalicoTo(r, w) ==
    LET calicoTemp == CalicoTemplate(r)
    IN  IF calicoTemp.err # "nil" THEN [w |-> w, err |-> calicoTemp.err]
        ELSE LET rendered == RenderTo(w, calicoTemp.template, r)
             IN  IF rendered.err # "nil" THEN [w |-> rendered.w, err |-> rendered.err]
                 ELSE [w |-> rendered.w, err |-> "nil"]

-----------------------------------------------------------------------------
(* Specification SpecCalico: the calls on one CalicoRunnable *)

CalicoVersions ==
    {"v3.11.2", "v3.16.10", "v3.21.2", "v3.22.4", "v3.24.5", "v3.26.1",
     "v3.27.0", ""}
StepNodeLists == {<<>>, <<"node-1">>, <<"node-1", "node-2">>}

InitCalico ==
    /\ pc = "calico"
    /\ \E v \in CalicoVersions : \E off \in BOOLEAN :
       \E reg \in {"", "172.0.0.1:5000"} :
       \E dir \in {"", "/custom/kubelet"} :
          runnable = [Version |-> v, Offline |-> off, LocalRegistry |-> reg,
                      KubeletDataDir |-> dir]
    /\ initStep = NoValue
    /\ ret = NoValue
    /\ RegIdle /\ CriIdle /\ K8sIdle

CalicoInstallSteps ==
    /\ pc = "calico"
    /\ \E nodes \in StepNodeLists : \E kv \in KubeVersions :
          ret' = InstallSteps(runnable, nodes, kv)
    /\ pc' = "installSteps"
    /\ UNCHANGED <<regVars, cniVars, criVars, k8sVars>>

\* a call of LoadImage; the nodes it was given are kept beside the result
CalicoLoadImage ==
    /\ pc = "calico"
    /\ \E nodes \in StepNodeLists :
          LET r == CalicoRunnableLoadImage(runnable, nodes)
          IN  ret' = [steps |-> r.steps, err |-> r.err, nodes |-> nodes]
    /\ pc' = "loadImage"
    /\ UNCHANGED <<regVars, cniVars, criVars, k8sVars>>

\* a call of renderCalicoTo on an empty buffer
CalicoRender ==
    /\ pc = "calico"
    /\ ret' = renderCalicoTo(runnable, <<>>)
    /\ pc' = "rendered"
    /\ UNCHANGED <<regVars, cniVars, criVars, k8sVars>>

NextCalico == CalicoInstallSteps \/ CalicoLoadImage \/ CalicoRender

SpecCalico == InitCalico /\ [][NextCalico]_vars

\* C6: InstallSteps returns a non-empty step list and no error for every
\* version CalicoTemplate maps, and an error and no steps for every other one.
C6_VersionDispatchTotal ==
    pc = "installSteps" =>
        IF CalicoTemplate(runnable).err = "nil"
        THEN ret.err = "nil" /\ ret.steps # <<>>
        ELSE ret.err # "nil" /\ ret.steps = <<>>

\* C11: LoadImage returns exactly one image-load step, carrying the JSON
\* snapshot of the runnable and targeting the given nodes, if and only if the
\* runnable is offline and has no local registry; in every other case it
\* returns no step and no error.
C11_LoadImageIffOfflineNoRegistry ==
    pc = "loadImage" =>
        /\ ret.err = "nil"
        /\ IF runnable.Offline /\ runnable.LocalRegistry = ""
           THEN /\ Len(ret.steps) = 1
                /\ ret.steps[1].Name = "loadImage"
                /\ ret.steps[1].Payload = [json |-> runnable]
                /\ ret.steps[1].Nodes = ret.nodes
           ELSE ret.steps = <<>>

\* LoadImage was called for two nodes on an offline runnable that has a local
\* registry, and returned no step
C11_Witness ==
    /\ pc = "loadImage"
    /\ runnable.Offline /\ runnable.LocalRegistry # ""
    /\ Len(ret.nodes) = 2
    /\ ret.steps = <<>>

Contains(w, text) == \E k \in 1..Len(w) : w[k] = text

-----------------------------------------------------------------------------
(* The containerd trust store: ToContainerdRegistryConfig, renderConfigs and *)
(* ContainerdRegistryConfigure.Install                                       *)

Capabilities == <<"pull", "push", "resolve">>

\* ToContainerdRegistryConfig: host -> ContainerdRegistry, hosts in list order
RECURSIVE ToContainerdRegistryConfig(_)
ToContainerdRegistryConfig(regs) ==
    IF regs = <<>> THEN <<>>
    ELSE LET r == regs[Len(regs)]
             cfgs == ToContainerdRegistryConfig(SubSeq(regs, 1, Len(regs) - 1))
             host == [Scheme |-> r.Scheme, Host |-> r.Host,
                      Capabilities |-> Capabilities,
                      SkipVerify |-> r.SkipVerify, CA |-> r.CA]
         IN  IF r.Host \in DOMAIN cfgs
             THEN [cfgs EXCEPT ![r.Host].Hosts = Append(@, host)]
             ELSE [h \in DOMAIN cfgs \cup {r.Host} |->
                     IF h = r.Host THEN [Server |-> r.Host, Hosts |-> <<host>>]
                     ELSE cfgs[h]]

\* os.WriteFile / os.Create on a directory's files (name -> content pairs)
WriteFile(files, name, content) ==
    {f \in files : f[1] # name} \cup {<<name, content>>}

\* the loop of renderConfigs over h.Hosts: the CA files and the HostConfigs
RECURSIVE RenderHosts(_, _, _)
RenderHosts(acc, server, hosts) ==
    IF hosts = <<>> THEN acc
    ELSE LET host == Head(hosts)
             caFile == <<server, host.Host, ".pem">>
             hostConfig == [Capabilities |-> host.Capabilities,
                            SkipVerify |-> IF host.SkipVerify THEN "true" ELSE "nil",
                            CACert |-> IF host.CA # "" THEN caFile ELSE <<>>]
             key == <<host.Scheme, "://", host.Host>>
         IN  RenderHosts(
                 [files |-> IF host.CA # ""
                            THEN WriteFile(acc.files, <<host.Host, ".pem">>, host.CA)
                            ELSE acc.files,
                  HostConfigs |->
                      {c \in acc.HostConfigs : c[1] # key} \cup {<<key, hostConfig>>}],
                 server, Tail(hosts))

\* ContainerdRegistry.renderConfigs(dir) on the file system fs
renderConfigs(fs, h) ==
    LET entry == fs.entries[h.Server]
    IN  IF <<"path", h.Server>> \in fs.faults \/ entry.kind = "file"
        THEN [fs |-> fs, err |-> "mkdir"]
        ELSE LET files0 == IF entry.kind = "dir" THEN entry.files ELSE {}
                 r == RenderHosts([files |-> files0, HostConfigs |-> {}],
                                  h.Server, h.Hosts)
                 hostFile == [Server |-> h.Server, HostConfigs |-> r.HostConfigs]
             IN  [fs |-> [fs EXCEPT
                            !.configDir = "present",
                            !.entries[h.Server] =
                                [kind |-> "dir",
                                 files |-> WriteFile(r.files, <<"hosts.toml">>, hostFile)],
                            !.ops = @ \cup {<<"MkdirAll", h.Server>>,
                                            <<"Create", h.Server>>,
                                            IF entry.kind = "dir"
                                            THEN <<"rewritten", h.Server>>
                                            ELSE <<"created", h.Server>>}],
                  err |-> "nil"]

\* the loop over c.Registries, in the order the map yields them
RECURSIVE RenderAll(_, _, _)
RenderAll(st, regs, order) ==
    IF order = <<>> \/ st.err # "nil" THEN st
    ELSE LET r == renderConfigs(st.fs, regs[Head(order)])
         IN  RenderAll(
                 [fs |-> r.fs, err |-> r.err,
                  done |-> IF r.err = "nil"
                           THEN st.done \cup {regs[Head(order)].Server}
                           ELSE st.done],
                 regs, Tail(order))

\* what is left of oldDirs after delete(oldDirs, r.Server) for every rendered r
StaleDirsAll(oldDirs, done) == oldDirs
StaleDirs(oldDirs, done) == oldDirs \ done

\* os.RemoveAll of each stale directory; a failure is logged
RemoveStale(fs, stale) ==
    [fs EXCEPT
        !.entries = [n \in DOMAIN @ |->
                        IF n \in stale /\ <<"path", n>> \notin fs.faults
                        THEN [kind |-> "none", files |-> {}] ELSE @[n]],
        !.ops = @ \cup {<<"RemoveAll", n>> : n \in stale}]

\* os.MkdirAll(containerdDefaultConfigDir, 0755)
MkdirDaemonDir(fs) ==
    IF <<"daemonDir">> \in fs.faults THEN [fs |-> fs, err |-> "mkdir"]
    ELSE [fs |-> [fs EXCEPT !.daemonDir = "present"], err |-> "nil"]

\* fileutil.WriteFileWithContext(ctx, cf, ..., renderTo, dryRun): config.toml is
\* created or truncated and rendered into, unless this is a dry run
WriteDaemonConfig(fs, dryRun) ==
    IF dryRun THEN [fs |-> fs, err |-> "nil"]
    ELSE IF fs.daemonDir = "missing" \/ <<"daemonDir">> \in fs.faults
            \/ <<"daemonConfig">> \in fs.faults
    THEN [fs |-> fs, err |-> "write"]
    ELSE [fs |-> [fs EXCEPT !.daemonConfig = "rendered"], err |-> "nil"]

\* part 2 of Install: config.toml and the restart of containerd; every error
\* is logged and dropped
RenderDaemonConfig(fs) == WriteDaemonConfig(MkdirDaemonDir(fs).fs, FALSE).fs

RestartContainerd(fs, sd) ==
    [sd EXCEPT !.reloaded = @ \/ <<"reload">> \notin fs.faults,
               !.restarted = @ \/ <<"restart">> \notin fs.faults]

\* ContainerdRegistryConfigure.Install with the map iterated in the given order
Install(c, fs, sd, order) ==
    IF c.DryRun THEN [fs |-> fs, systemd |-> sd, err |-> "nil"]
    ELSE IF <<"readDir">> \in fs.faults
    THEN [fs |-> fs, systemd |-> sd, err |-> "read registry config dir"]
    ELSE LET oldDirs == IF fs.configDir = "missing" THEN {}
                        ELSE {n \in DOMAIN fs.entries : fs.entries[n].kind = "dir"}
             rendered == RenderAll([fs |-> fs, err |-> "nil", done |-> {}],
                                   c.Registries, order)
         IN  IF rendered.err # "nil"
             THEN [fs |-> rendered.fs, systemd |-> sd, err |-> "renderConfigs"]
             ELSE LET cleared ==
                          RemoveStale(rendered.fs, StaleDirs(oldDirs, rendered.done))
                  IN  [fs |-> RenderDaemonConfig(cleared),
                       systemd |-> RestartContainerd(cleared, sd),
                       err |-> "nil"]

-----------------------------------------------------------------------------
(* ContainerdRunnable.Install: the daemon config, certs.d and the service *)

ContainerdDefaultRegistryConfigDir == "certs.d"

\* component.GetRepoMirror(ctx)
GetRepoMirror == "mirror"

\* ContainerdRunnable.renderRegistryConfig, the map iterated in the given order
renderRegistryConfig(r, fs, dryRun, order) ==
    IF dryRun THEN [fs |-> fs, err |-> "nil"]
    ELSE LET regCfgs == ToContainerdRegistryConfig(r.Registies)
             rendered == RenderAll([fs |-> fs, err |-> "nil", done |-> {}],
                                   regCfgs, order)
         IN  [fs |-> rendered.fs, err |-> rendered.err]

\* ContainerdRunnable.setupContainerdConfig
setupContainerdConfig(r, fs, dryRun, order) ==
    LET r1 == [r EXCEPT
                 !.LocalRegistry =
                     IF ~r.Offline /\ r.LocalRegistry = "" THEN GetRepoMirror ELSE @,
                 !.RegistryConfigDir =
                     IF @ = "" THEN ContainerdDefaultRegistryConfigDir ELSE @]
        made == MkdirDaemonDir(fs)
        written == WriteDaemonConfig(made.fs, dryRun)
        certs == renderRegistryConfig(r1, written.fs, dryRun, order)
    IN  IF made.err # "nil" THEN [runnable |-> r1, fs |-> fs, err |-> made.err]
        ELSE IF written.err # "nil"
        THEN [runnable |-> r1, fs |-> made.fs, err |-> written.err]
        ELSE [runnable |-> r1, fs |-> certs.fs, err |-> certs.err]

\* ContainerdRunnable.enableContainerdService
enableContainerdService(fs, sd, dryRun) ==
    IF dryRun THEN [systemd |-> sd, err |-> "nil"]
    ELSE IF <<"reload">> \in fs.faults THEN [systemd |-> sd, err |-> "reload"]
    ELSE IF <<"enable">> \in fs.faults
    THEN [systemd |-> [sd EXCEPT !.reloaded = TRUE], err |-> "enable"]
    ELSE IF <<"restart">> \in fs.faults
    THEN [systemd |-> [sd EXCEPT !.reloaded = TRUE, !.enabled = TRUE],
          err |-> "restart"]
    ELSE [systemd |-> [reloaded |-> TRUE, enabled |-> TRUE, restarted |-> TRUE],
          err |-> "nil"]

\* downloader.NewInstance and DownloadAndUnpackConfigs: the package is fetched
\* and unpacked outside ConfigDir and the daemon config, not at all on a dry run
DownloadAndUnpackConfigs(fs, dryRun) ==
    IF ~dryRun /\ <<"download">> \in fs.faults THEN "download" ELSE "nil"

\* cmdutil.RunCmdWithContext(ctx, dryRun, "crictl", "config", ...)
RunCrictlConfig(fs, dryRun) ==
    IF ~dryRun /\ <<"crictl">> \in fs.faults THEN "crictl" ELSE "nil"

\* ContainerdRunnable.Install on a copy of the runnable (value receiver)
ContainerdRunnableInstall(r, fs, sd, dryRun, order) ==
    LET downloaded == DownloadAndUnpackConfigs(fs, dryRun)
        setup == setupContainerdConfig(r, fs, dryRun, order)
        enabled == enableContainerdService(setup.fs, sd, dryRun)
        crictl == RunCrictlConfig(setup.fs, dryRun)
    IN  IF downloaded # "nil" THEN [fs |-> fs, systemd |-> sd, err |-> downloaded]
        ELSE IF setup.err # "nil"
        THEN [fs |-> setup.fs, systemd |-> sd, err |-> setup.err]
        ELSE IF enabled.err # "nil"
        THEN [fs |-> setup.fs, systemd |-> enabled.systemd, err |-> enabled.err]
        ELSE [fs |-> setup.fs, systemd |-> enabled.systemd, err |-> crictl]

-----------------------------------------------------------------------------
(* Specification SpecTrust: one Install on a node, of the                    *)
(* ContainerdRegistryConfigure or of its ContainerdRunnable                  *)

\* the registries of one host in the desired set: none, the insecure pair, or
\* the entry its named registry resolves to
DesiredOf(h) ==
    {<<>>, <<HttpEntry(h), HttpsSkipEntry(h)>>}
        \cup {<<r>> : r \in {s \in ResolvedSpecs : s.Host = h}}

\* what a ConfigDir entry can be before the call
OldHostFile == [Server |-> <<>>, HostConfigs |-> {}]
EntryStates ==
    {[kind |-> "none", files |-> {}],
     [kind |-> "file", files |-> {}],
     [kind |-> "dir", files |-> {<<<<"hosts.toml">>, OldHostFile>>}]}

Faults ==
    {<<"readDir">>, <<"daemonDir">>, <<"daemonConfig">>, <<"reload">>,
     <<"restart">>, <<"enable">>, <<"download">>, <<"crictl">>}
        \cup {<<"path", h>> : h \in Hosts}

\* all orders in which a map over the given keys can be iterated
RECURSIVE Orders(_)
Orders(keys) ==
    IF keys = {} THEN {<<>>}
    ELSE UNION {{<<k>> \o o : o \in Orders(keys \ {k})} : k \in keys}

InitTrust ==
    /\ pc = "trust"
    /\ \E da \in DesiredOf(HostA) : \E dsx \in DesiredOf(HostSX) :
       \E dx \in DesiredOf(HostX) : \E dry \in BOOLEAN :
          configure = [Registries |-> ToContainerdRegistryConfig(da \o dsx \o dx),
                       ConfigDir |-> "certs.d", DryRun |-> dry,
                       ContainerdRunnable |->
                           [Registies |-> da \o dsx \o dx,
                            RegistryConfigDir |-> "",
                            Offline |-> FALSE, LocalRegistry |-> ""]]
    /\ \E es \in [Hosts -> EntryStates] :
       \E missing \in BOOLEAN :
       \E daemon \in {[dir |-> "missing", config |-> "none"],
                       [dir |-> "present", config |-> "old"]} :
       \E fl \in {f \in SUBSET Faults : Cardinality(f) <= MaxFaults} :
          /\ missing => \A h \in Hosts : es[h].kind = "none"
          /\ fsys = [configDir |-> IF missing THEN "missing" ELSE "present",
                     entries |-> es,
                     daemonDir |-> daemon.dir, daemonConfig |-> daemon.config,
                     faults |-> fl, ops |-> {}]
    /\ systemd = [reloaded |-> FALSE, enabled |-> FALSE, restarted |-> FALSE]
    /\ ret = NoValue
    /\ RegIdle /\ CniIdle /\ K8sIdle

RegistryInstall ==
    /\ pc = "trust"
    /\ \E order \in Orders(DOMAIN configure.Registries) :
          LET r == Install(configure, fsys, systemd, order)
          IN  /\ fsys' = r.fs
              /\ systemd' = r.systemd
              /\ ret' = [err |-> r.err]
    /\ pc' = "installed"
    /\ UNCHANGED <<configure, regVars, cniVars, k8sVars>>

ContainerdInstall ==
    /\ pc = "trust"
    /\ \E order \in Orders(DOMAIN configure.Registries) :
          LET r == ContainerdRunnableInstall(configure.ContainerdRunnable, fsys,
                                             systemd, configure.DryRun, order)
          IN  /\ fsys' = r.fs
              /\ systemd' = r.systemd
              /\ ret' = [err |-> r.err]
    /\ pc' = "containerdInstalled"
    /\ UNCHANGED <<configure, regVars, cniVars, k8sVars>>

NextTrust == RegistryInstall \/ ContainerdInstall

SpecTrust == InitTrust /\ [][NextTrust]_vars

SubDirs(fs) == {n \in DOMAIN fs.entries : fs.entries[n].kind = "dir"}
DesiredHosts(c) == {c.Registries[k].Server : k \in DOMAIN c.Registries}
HostsFileOf(fs, n) ==
    {f[2] : f \in {g \in fs.entries[n].files : g[1] = <<"hosts.toml">>}}

\* C7: after a non-dry-run Install in which no operation failed, the
\* subdirectories of ConfigDir are exactly the desired hosts: each stale one
\* was removed, each desired one holds a hosts file written by this call.
C7_TrustStoreReconciled ==
    (pc = "installed" /\ ~configure.DryRun /\ ret.err = "nil"
        /\ fsys.faults = {}) =>
        /\ SubDirs(fsys) = DesiredHosts(configure)
        /\ \A n \in DesiredHosts(configure) :
              /\ <<"Create", n>> \in fsys.ops
              /\ \A f \in HostsFileOf(fsys, n) :
                    f.Server = n /\ f.HostConfigs # {}
              /\ HostsFileOf(fsys, n) # {}
        /\ \A op \in fsys.ops :
              op[1] = "RemoveAll" => op[2] \notin DesiredHosts(configure)

\* existing {a, sx}, desired {sx, x}: a removed, sx rewritten, x created
C7_Witness ==
    /\ pc = "installed" /\ ~configure.DryRun /\ ret.err = "nil"
    /\ fsys.faults = {}
    /\ DesiredHosts(configure) = {HostSX, HostX}
    /\ SubDirs(fsys) = {HostSX, HostX}
    /\ fsys.ops = {<<"RemoveAll", HostA>>, <<"MkdirAll", HostSX>>,
                   <<"Create", HostSX>>, <<"rewritten", HostSX>>,
                   <<"MkdirAll", HostX>>, <<"Create", HostX>>,
                   <<"created", HostX>>}

\* C12: a non-dry-run Install in which writing config.toml, the daemon reload
\* or the restart of containerd failed returns an error to its caller.
C12_DaemonFailureSurfaced ==
    (pc = "installed" /\ ~configure.DryRun
        /\ fsys.faults \cap {<<"daemonConfig">>, <<"reload">>, <<"restart">>} # {})
        => ret.err # "nil"

\* C13: on a dry run, ContainerdRegistryConfigure.Install and the
\* ContainerdRunnable.Install path (setupContainerdConfig, then
\* enableContainerdService) return success and leave the file system and the
\* service exactly as they were before the call.
C13_DryRunChangesNothing ==
    [][(configure.DryRun /\ pc = "trust")
         => (ret'.err = "nil" /\ fsys' = fsys /\ systemd' = systemd)]_vars

-----------------------------------------------------------------------------
(* ContainerdRunnable.InitStep and GetActionSteps.  A Kubernetes version is  *)
(* the sequence of its characters, which matchPauseVersion takes apart.      *)

KubeV1236 == <<"v", "1", ".", "2", "3", ".", "6">>
KubeV1274 == <<"v", "1", ".", "2", "7", ".", "4">>

\* strings.ReplaceAll(s, old, "") for a one-character old
ReplaceAll(s, old) == SelectSeq(s, LAMBDA ch : ch # old)

\* strconv.Atoi, its error dropped: 0 for what is not a number
DecimalDigits == <<"0", "1", "2", "3", "4", "5", "6", "7", "8", "9">>
IsDigit(ch) == \E d \in 1..10 : DecimalDigits[d] = ch
DigitValue(ch) == (CHOOSE d \in 1..10 : DecimalDigits[d] = ch) - 1
RECURSIVE DigitsValue(_)
DigitsValue(s) ==
    IF s = <<>> THEN 0
    ELSE DigitsValue(SubSeq(s, 1, Len(s) - 1)) * 10 + DigitValue(s[Len(s)])
Atoi(s) ==
    IF s # <<>> /\ \A k \in 1..Len(s) : IsDigit(s[k]) THEN DigitsValue(s) ELSE 0

\* the table k8sMatchPauseVersion; a missing key reads as ""
k8sMatchPauseVersion(kubeVersion) ==
    CASE kubeVersion = <<"1", "2", "3">> -> "3.6"
      [] kubeVersion = <<"1", "2", "7">> -> "3.9"
      [] OTHER -> ""

\* ContainerdRunnable.matchPauseVersion
matchPauseVersion(kubeVersion) ==
    IF kubeVersion = <<>> THEN [version |-> "", registry |-> "k8s.gcr.io"]
    ELSE LET stripped == ReplaceAll(ReplaceAll(kubeVersion, "v"), ".")
             key == SubSeq(stripped, 1, 3)
         IN  [version |-> k8sMatchPauseVersion(key),
              registry |-> IF Atoi(key) >= 125 THEN "registry.k8s.io"
                           ELSE "k8s.gcr.io"]

\* FilterRegistryWithAuth
FilterRegistryWithAuth(regs) == SelectSeq(regs, LAMBDA r : r.RegistryAuth # "nil")

\* strutil.StringDefaultIfEmpty and strconv.FormatBool
containerdDefaultConfigDir == "/etc/containerd"
StringDefaultIfEmpty(default, s) == IF s = "" THEN default ELSE s
FormatBool(b) == IF b THEN "true" ELSE "false"

\* json.Marshal(runnable): the exported fields of the ContainerdRunnable
UnexportedFields == {"installSteps", "uninstallSteps", "upgradeSteps"}
MarshalRuntime(r) ==
    [bytes |-> [json |-> [f \in DOMAIN r \ UnexportedFields |-> r[f]]],
     err |-> "nil"]

\* &ContainerdRunnable{}
NewContainerdRunnable ==
    [Version |-> "", Offline |-> FALSE, DataRootDir |-> "",
     Registies |-> <<>>, RegistryWithAuth |-> <<>>,
     RegistryConfigDir |-> "", LocalRegistry |-> "", KubeVersion |-> "",
     PauseVersion |-> "", PauseRegistry |-> "", EnableSystemdCgroup |-> "",
     installSteps |-> <<>>, uninstallSteps |-> <<>>, upgradeSteps |-> <<>>]

\* the step InitStep builds around runtimeBytes
RuntimeStep(id, name, action, identity, nodes, runtimeBytes) ==
    [ID |-> id, Name |-> name, Timeout |-> "10m", ErrIgnore |-> FALSE,
     RetryTimes |-> 1, Nodes |-> nodes, Action |-> action,
     Commands |-> <<[Type |-> "custom", Identity |-> identity,
                     CustomCommand |-> runtimeBytes]>>]

\* ContainerdRunnable.InitStep; isRunningSystemd is what cgroups.IsRunningSystemd
\* answers, uuid what makes the identifiers of this call fresh
InitStep(r, c, nodes, regs, metadata, isRunningSystemd, uuid) ==
    LET fromMetadata == matchPauseVersion(metadata.KubeVersion)
        r1 == [r EXCEPT
                 !.Version = c.ContainerRuntime.Version,
                 !.Offline = metadata.Offline,
                 !.DataRootDir =
                     StringDefaultIfEmpty(containerdDefaultConfigDir,
                                          c.ContainerRuntime.DataRootDir),
                 !.LocalRegistry = metadata.LocalRegistry,
                 !.Registies = regs,
                 !.RegistryWithAuth = FilterRegistryWithAuth(regs),
                 !.RegistryConfigDir =
                     IF @ = "" THEN ContainerdDefaultRegistryConfigDir ELSE @,
                 !.EnableSystemdCgroup = FormatBool(isRunningSystemd),
                 !.PauseVersion = fromMetadata.version,
                 !.PauseRegistry = fromMetadata.registry]
        runtimeBytes == MarshalRuntime(r1).bytes
        fromCluster == matchPauseVersion(c.KubernetesVersion)
        r2 == IF r1.PauseVersion = ""
              THEN [r1 EXCEPT !.PauseVersion = fromCluster.version,
                              !.PauseRegistry = fromCluster.registry]
              ELSE r1
    IN  [runnable |->
            [r2 EXCEPT
               !.installSteps =
                   IF Len(@) = 0
                   THEN <<RuntimeStep(<<uuid, 1>>, "installRuntime", "install",
                                      <<"RegisterStepKeyFormat", "containerd",
                                        "v1", "step">>, nodes, runtimeBytes)>>
                   ELSE @,
               !.uninstallSteps =
                   IF Len(@) = 0
                   THEN <<RuntimeStep(<<uuid, 2>>, "uninstallRuntime", "uninstall",
                                      <<"RegisterTemplateKeyFormat", "containerd",
                                        "v1", "step">>, nodes, runtimeBytes)>>
                   ELSE @],
         err |-> "nil"]

\* ContainerdRunnable.GetActionSteps
GetActionSteps(r, action) ==
    CASE action = "install" -> r.installSteps
      [] action = "uninstall" -> r.uninstallSteps
      [] action = "upgrade" -> r.upgradeSteps
      [] OTHER -> <<>>

-----------------------------------------------------------------------------
(* Specification SpecInitStep: the calls on one ContainerdRunnable instance *)

ContainerdVersions == {"1.6.4", "1.7.2"}
InitStepNodeLists == {<<"node-1">>, <<"node-1", "node-2">>}
InitStepRegistries == {<<>>, <<CAEntryX>>}
StepActions == {"install", "uninstall", "upgrade", "backup"}

InitInitStep ==
    /\ pc = "new"
    /\ runnable = NewContainerdRunnable
    /\ initStep = [calls |-> 0, args |-> NoValue]
    /\ ret = NoValue
    /\ configure = NoValue /\ fsys = NoValue /\ systemd = NoValue
    /\ RegIdle /\ K8sIdle

InInitStepSpec == pc \in {"new", "initStep", "getActionSteps"}

InitStepCall ==
    /\ InInitStepSpec
    /\ initStep.calls < MaxInitSteps
    /\ \E version \in ContainerdVersions :
       \E kubernetesVersion \in {KubeV1236, KubeV1274} :
       \E kubeVersion \in {<<>>, KubeV1236} :
       \E offline \in BOOLEAN :
       \E nodes \in InitStepNodeLists :
       \E regs \in InitStepRegistries :
          LET c == [ContainerRuntime |-> [Version |-> version, DataRootDir |-> ""],
                    KubernetesVersion |-> kubernetesVersion]
              metadata == [Offline |-> offline, LocalRegistry |-> "",
                           KubeVersion |-> kubeVersion]
              r == InitStep(runnable, c, nodes, regs, metadata, TRUE,
                            initStep.calls + 1)
          IN  /\ runnable' = r.runnable
              /\ ret' = [err |-> r.err]
              /\ initStep' = [calls |-> initStep.calls + 1,
                              args |-> [cluster |-> c, nodes |-> nodes,
                                        registries |-> regs,
                                        metadata |-> metadata]]
    /\ pc' = "initStep"
    /\ UNCHANGED <<regVars, criVars, k8sVars>>

GetActionStepsCall ==
    /\ InInitStepSpec
    /\ \E action \in StepActions :
          ret' = [action |-> action, steps |-> GetActionSteps(runnable, action)]
    /\ pc' = "getActionSteps"
    /\ UNCHANGED <<regVars, cniVars, criVars, k8sVars>>

NextInitStep == InitStepCall \/ GetActionStepsCall

SpecInitStep == InitInitStep /\ [][NextInitStep]_vars

\* C19: after any sequence of InitStep calls on one instance,
\* GetActionSteps(install) and GetActionSteps(uninstall) return the step of
\* the most recent call: its Nodes are the nodes of that call and its payload
\* holds the registries and the version of that call.
C19_StepsOfLatestInitStep ==
    (pc = "getActionSteps" /\ initStep.calls > 0
        /\ ret.action \in {"install", "uninstall"}) =>
        /\ Len(ret.steps) = 1
        /\ ret.steps[1].Nodes = initStep.args.nodes
        /\ LET payload == ret.steps[1].Commands[1].CustomCommand.json
           IN  /\ payload.Registies = initStep.args.registries
               /\ payload.Version = initStep.args.cluster.ContainerRuntime.Version

\* C20: when the first InitStep on an instance returns, the CustomCommand of
\* the install step and of the uninstall step is the serialization of the
\* runnable as it then is, PauseVersion and PauseRegistry included.
C20_PayloadIsFinalState ==
    (pc = "initStep" /\ initStep.calls = 1) =>
        \A action \in {"install", "uninstall"} :
            LET steps == GetActionSteps(runnable, action)
            IN  /\ Len(steps) = 1
                /\ steps[1].Commands[1].CustomCommand
                     = MarshalRuntime(runnable).bytes

-----------------------------------------------------------------------------
(* deleteContainer: one step per containerd call *)

\* Where the loop body goes after a call, by the call's outcome: the label of
\* the next call, "continue" (next container) or "return" (return err).
Flow(call, out) ==
    CASE call = "Task" -> IF out = "ok" THEN "Wait" ELSE "CtrDelete"
      [] call = "Wait" -> IF out = "ok" THEN "Kill" ELSE "return"
      [] call = "Kill" -> IF out = "ok" THEN "Recv"
                          ELSE IF out = "notfound" THEN "continue"
                          ELSE "return"
      [] call = "Recv" -> "Result"
      [] call = "Result" -> IF out = "ok" THEN "TaskDelete" ELSE "return"
      [] call = "TaskDelete" -> "CtrDelete"
      [] call = "CtrDelete" -> "continue"

FlowTaskLookupSkips(call, out) ==
    IF call = "Task" /\ out # "ok" THEN "continue" ELSE Flow(call, out)

FlowTaskDeleteAborts(call, out) ==
    IF call = "TaskDelete" /\ out # "ok" THEN "return" ELSE Flow(call, out)

\* a loop body that deletes the task as soon as the kill was sent
FlowDeleteBeforeExit(call, out) ==
    IF call = "Kill" /\ out = "ok" THEN "TaskDelete" ELSE Flow(call, out)

\* a loop body that reads the exit-status channel before it sends the kill
FlowRecvBeforeKill(call, out) ==
    IF call = "Wait" /\ out = "ok" THEN "Recv" ELSE Flow(call, out)

OnOutcome(call, out) == Flow(call, out)

\* the container of the current iteration
Ctr == loop.ctrs[loop.i]

\* the common part of every step inside the loop
LoopStep(call, out) ==
    LET to == OnOutcome(call, out)
    IN  /\ events' = Append(events, [call |-> call, ctr |-> Ctr, out |-> out])
        /\ IF to = "return"
           THEN pc' = "returned" /\ ret' = [err |-> call] /\ UNCHANGED loop
           ELSE IF to = "continue"
           THEN IF loop.i < Len(loop.ctrs)
                THEN /\ pc' = "Task" /\ loop' = [loop EXCEPT !.i = @ + 1]
                     /\ UNCHANGED ret
                ELSE pc' = "returned" /\ ret' = [err |-> "nil"] /\ UNCHANGED loop
           ELSE pc' = to /\ UNCHANGED <<loop, ret>>
        /\ UNCHANGED <<output, regVars, cniVars, criVars>>

\* containerd.New
New ==
    /\ pc = "New"
    /\ \E out \in {"ok", "err"} :
          /\ events' = Append(events, [call |-> "New", ctr |-> "", out |-> out])
          /\ IF out = "ok" THEN pc' = "Containers" /\ UNCHANGED ret
             ELSE pc' = "returned" /\ ret' = [err |-> "New"]
    /\ UNCHANGED <<containerd, loop, output, regVars, cniVars, criVars>>

\* client.Containers
Containers ==
    /\ pc = "Containers"
    /\ \E out \in {"ok", "err"} :
          /\ events' =
                Append(events, [call |-> "Containers", ctr |-> "", out |-> out])
          /\ IF out = "err"
             THEN pc' = "returned" /\ ret' = [err |-> "Containers"]
                  /\ UNCHANGED loop
             ELSE /\ loop' = [ctrs |-> containerd.ctrs, i |-> 1]
                  /\ IF containerd.ctrs = <<>>
                     THEN pc' = "returned" /\ ret' = [err |-> "nil"]
                     ELSE pc' = "Task" /\ UNCHANGED ret
    /\ UNCHANGED <<containerd, output, regVars, cniVars, criVars>>

\* ctr.Task: fails when the container has no task, and may fail otherwise
Task ==
    /\ pc = "Task"
    /\ \E out \in {"ok", "err"} :
          /\ out = "ok" => containerd.task[Ctr] = "running"
          /\ LoopStep("Task", out)
    /\ UNCHANGED containerd

\* task.Wait: the exit-status channel
Wait ==
    /\ pc = "Wait"
    /\ \E out \in {"ok", "err"} : LoopStep("Wait", out)
    /\ UNCHANGED containerd

\* task.Kill(SIGKILL): the signal is delivered; not-found means the task was
\* gone already
Kill ==
    /\ pc = "Kill"
    /\ \E out \in {"ok", "notfound", "err"} :
          /\ LoopStep("Kill", out)
          /\ containerd' =
                IF out = "ok" THEN [containerd EXCEPT !.task[Ctr] = "killed"]
                ELSE IF out = "notfound"
                THEN [containerd EXCEPT !.task[Ctr] = "none"]
                ELSE containerd

\* the killed task exits and containerd's answer to the wait request puts its
\* exit status on exitStatusC
Exit ==
    /\ pc = "Recv"
    /\ containerd.task[Ctr] = "killed"
    /\ containerd' = [containerd EXCEPT !.task[Ctr] = "exited"]
    /\ UNCHANGED <<pc, ret, loop, events, output, regVars, cniVars, criVars>>

\* status := <-exitStatusC: blocks until the exit status is on the channel
Recv ==
    /\ pc = "Recv"
    /\ containerd.task[Ctr] = "exited"
    /\ LoopStep("Recv", "ok")
    /\ UNCHANGED containerd

\* status.Result
Result ==
    /\ pc = "Result"
    /\ \E out \in {"ok", "err"} : LoopStep("Result", out)
    /\ UNCHANGED containerd

\* task.Delete
TaskDelete ==
    /\ pc = "TaskDelete"
    /\ \E out \in {"ok", "err"} :
          /\ LoopStep("TaskDelete", out)
          /\ containerd' =
                IF out = "ok" THEN [containerd EXCEPT !.task[Ctr] = "none"]
                ELSE containerd

\* ctr.Delete
CtrDelete ==
    /\ pc = "CtrDelete"
    /\ \E out \in {"ok", "err"} :
          /\ LoopStep("CtrDelete", out)
          /\ containerd' =
                IF out = "ok" THEN [containerd EXCEPT !.present = @ \ {Ctr}]
                ELSE containerd

-----------------------------------------------------------------------------
(* Specification SpecTeardown: one call of deleteContainer *)

CtrIds == <<"c1", "c2", "c3", "c4", "c5">>

InitTeardown ==
    /\ pc = "New"
    /\ \E n \in 0..MaxCtrs :
       \E tk \in [{CtrIds[k] : k \in 1..n} -> {"none", "running"}] :
          containerd = [ctrs |-> SubSeq(CtrIds, 1, n), task |-> tk,
                        present |-> {CtrIds[k] : k \in 1..n}]
    /\ loop = [ctrs |-> <<>>, i |-> 0]
    /\ events = <<>>
    /\ output = NoValue
    /\ ret = NoValue
    /\ RegIdle /\ CniIdle /\ CriIdle

NextTeardown ==
    \/ New \/ Containers \/ Task \/ Wait \/ Kill \/ Exit \/ Recv \/ Result
    \/ TaskDelete \/ CtrDelete

SpecTeardown == InitTeardown /\ [][NextTeardown]_vars

\* deleteContainer is one goroutine: it goes on as soon as the call it is in
\* returns, and every containerd call returns
SpecTeardownFair == SpecTeardown /\ WF_vars(NextTeardown)

\* the calls made for one container, in order
CallsOf(c) ==
    LET es == SelectSeq(events, LAMBDA e : e.ctr = c)
    IN  [k \in 1..Len(es) |-> es[k].call]

Listed == {loop.ctrs[k] : k \in 1..Len(loop.ctrs)}
LookupFailed(c) ==
    \E k \in 1..Len(events) :
        events[k].call = "Task" /\ events[k].ctr = c /\ events[k].out # "ok"
LoopStarted == Len(events) > 2

\* C8: when only task lookups fail, deleteContainer returns success, every
\* listed container has its deletion attempted, a container whose task lookup
\* failed sees no wait, kill or task deletion, and every other container is
\* torn down in full.
C8_TeardownResilient ==
    (pc = "returned"
        /\ \A k \in 1..Len(events) :
              events[k].call # "Task" => events[k].out = "ok") =>
        /\ ret.err = "nil"
        /\ loop.ctrs = containerd.ctrs
        /\ \A c \in Listed :
              IF LookupFailed(c)
              THEN CallsOf(c) = <<"Task", "CtrDelete">>
              ELSE CallsOf(c) = <<"Task", "Wait", "Kill", "Recv", "Result",
                                  "TaskDelete", "CtrDelete">>
        /\ containerd.present = {}

\* three containers, the second without a task, all three deleted
C8_Witness ==
    /\ pc = "returned"
    /\ ret.err = "nil"
    /\ Len(loop.ctrs) = 3
    /\ ~LookupFailed("c1") /\ LookupFailed("c2") /\ ~LookupFailed("c3")
    /\ \A k \in 1..Len(events) :
          events[k].call # "Task" => events[k].out = "ok"
    /\ containerd.present = {}

LastEvent == events[Len(events)]
Tolerated == {"Task", "TaskDelete", "CtrDelete"}

C14_TeardownReturns == <>(pc = "returned")

\* the call returned after it had read the exit status of a killed task and
\* had met a task that was already gone
C14_Witness ==
    /\ pc = "returned"
    /\ \E k \in 1..Len(events) : events[k].call = "Recv"
    /\ \E k \in 1..Len(events) :
          events[k].call = "Kill" /\ events[k].out = "notfound"

\* the events of the loop, and the place of a container in the list
LoopEvents == SelectSeq(events, LAMBDA e : e.ctr # "")
Pos(c) == CHOOSE k \in 1..Len(loop.ctrs) : loop.ctrs[k] = c
TeardownOrder == <<"Kill", "Recv", "TaskDelete", "CtrDelete">>
IsPrefix(a, b) == Len(a) <= Len(b) /\ a = SubSeq(b, 1, Len(a))
Before(c, first, then) ==
    \A k \in 1..Len(LoopEvents) :
        (LoopEvents[k].ctr = c /\ LoopEvents[k].call = then) =>
            \E j \in 1..(k - 1) :
                LoopEvents[j].ctr = c /\ LoopEvents[j].call = first

\* C16: the containers are handled one at a time, in list order; for a
\* container with a task the kill, the observed exit, the task deletion and
\* the container deletion happen in that order; no task is deleted before its
\* exit was observed; no container is deleted unless its task was observed to
\* exit or the task lookup found none.
C16_TeardownOrdered ==
    /\ \A j, k \in 1..Len(LoopEvents) :
          j < k => Pos(LoopEvents[j].ctr) <= Pos(LoopEvents[k].ctr)
    /\ \A c \in Listed :
          /\ IsPrefix(SelectSeq(CallsOf(c), LAMBDA call :
                          call \in {"Kill", "Recv", "TaskDelete", "CtrDelete"}),
                      IF LookupFailed(c) THEN <<"CtrDelete">> ELSE TeardownOrder)
          /\ Before(c, "Kill", "Recv")
          /\ Before(c, "Recv", "TaskDelete")
          /\ LookupFailed(c) \/ Before(c, "Recv", "CtrDelete")

\* two containers with tasks were torn down in full, one after the other
C16_Witness ==
    /\ pc = "returned"
    /\ Len(loop.ctrs) = 2
    /\ [k \in 1..Len(LoopEvents) |-> <<LoopEvents[k].ctr, LoopEvents[k].call>>]
         = <<<<"c1", "Task">>, <<"c1", "Wait">>, <<"c1", "Kill">>,
             <<"c1", "Recv">>, <<"c1", "Result">>, <<"c1", "TaskDelete">>,
             <<"c1", "CtrDelete">>,
             <<"c2", "Task">>, <<"c2", "Wait">>, <<"c2", "Kill">>,
             <<"c2", "Recv">>, <<"c2", "Result">>, <<"c2", "TaskDelete">>,
             <<"c2", "CtrDelete">>>>

\* C17: whenever deleteContainer returns success, ctr.Delete was attempted for
\* every container of the namespace, the ones whose kill was answered
\* not-found included.
C17_EveryContainerDeletionAttempted ==
    (pc = "returned" /\ ret.err = "nil") =>
        /\ loop.ctrs = containerd.ctrs
        /\ \A c \in Listed :
              \E k \in 1..Len(events) :
                  events[k].ctr = c /\ events[k].call = "CtrDelete"

-----------------------------------------------------------------------------
(* sanitizeCommand and extractJoinCommands.  The output is a sequence of     *)
(* words and of the white space between them; a cleaned string is the        *)
(* sequence of its words, which the code joins with single spaces.           *)

Separators == {" ", "\n", "\t", "\\\n"}

\* sanitizeCommand: "\\\n" becomes a space, then strings.Fields and strings.Join
sanitizeCommand(input) ==
    LET cleaned == [k \in 1..Len(input) |->
                      IF input[k] = "\\\n" THEN " " ELSE input[k]]
    IN  SelectSeq(cleaned, LAMBDA w : w \notin Separators)

\* the smallest index >= from whose word is flag and that leaves `room` words
\* after it; 0 when there is none
RECURSIVE FirstWord(_, _, _, _)
FirstWord(w, flag, from, room) ==
    IF from + room > Len(w) THEN 0
    ELSE IF w[from] = flag THEN from
    ELSE FirstWord(w, flag, from + 1, room)

\* the smallest index >= from where "kubeadm join" begins; 0 when none
RECURSIVE FirstJoin(_, _)
FirstJoin(w, from) ==
    IF from + 1 > Len(w) THEN 0
    ELSE IF w[from] = "kubeadm" /\ w[from + 1] = "join" THEN from
    ELSE FirstJoin(w, from + 1)

NoMatch == [found |-> FALSE, start |-> 0, end |-> 0]

\* kubeadm join.*?--control-plane.*?--certificate-key\s+\S+  from word `from`
MatchMaster(w, from) ==
    LET i == FirstJoin(w, from)
        j == IF i = 0 THEN 0 ELSE FirstWord(w, "--control-plane", i + 2, 0)
        k == IF j = 0 THEN 0 ELSE FirstWord(w, "--certificate-key", j + 1, 1)
    IN  IF k = 0 THEN NoMatch ELSE [found |-> TRUE, start |-> i, end |-> k + 1]

\* kubeadm join.*?--token\s+\S+.*?--discovery-token-ca-cert-hash\s+\S+
MatchWorker(w, from) ==
    LET i == FirstJoin(w, from)
        tk == IF i = 0 THEN 0 ELSE FirstWord(w, "--token", i + 2, 1)
        d == IF tk = 0 THEN 0
             ELSE FirstWord(w, "--discovery-token-ca-cert-hash", tk + 2, 1)
    IN  IF d = 0 THEN NoMatch ELSE [found |-> TRUE, start |-> i, end |-> d + 1]

ContainsWord(s, word) == \E k \in 1..Len(s) : s[k] = word

\* the loop over reWorker.FindAllString: the first match without --control-plane
RECURSIVE FirstPlainWorker(_, _)
FirstPlainWorker(w, from) ==
    LET mt == MatchWorker(w, from)
    IN  IF ~mt.found THEN <<>>
        ELSE LET match == SubSeq(w, mt.start, mt.end)
             IN  IF ~ContainsWord(match, "--control-plane") THEN match
                 ELSE FirstPlainWorker(w, mt.end + 1)

extractJoinCommands(out) ==
    LET cleanedOutput == sanitizeCommand(out)
        mm == MatchMaster(cleanedOutput, 1)
    IN  [master |-> IF mm.found THEN SubSeq(cleanedOutput, mm.start, mm.end)
                    ELSE <<>>,
         worker |-> FirstPlainWorker(cleanedOutput, 1)]

-----------------------------------------------------------------------------
(* Specification SpecJoin: extractJoinCommands on kubeadm output *)

WorkerCommand ==
    <<"kubeadm", "join", "10.0.0.1:6443", "--token", "abcdef.0123456789",
      "--discovery-token-ca-cert-hash", "sha256:1f2e">>
MasterCommand ==
    WorkerCommand \o <<"--control-plane", "--certificate-key", "9a8b7c">>

\* a command as kubeadm prints it: continued over lines with a backslash
RECURSIVE Printed(_)
Printed(words) ==
    IF Len(words) <= 1 THEN words
    ELSE <<Head(words)>>
           \o (IF Head(Tail(words)) \in {"--discovery-token-ca-cert-hash",
                                         "--control-plane"}
               THEN <<" ", "\\\n", "\t">> ELSE <<" ">>)
           \o Printed(Tail(words))

Lines ==
    {Printed(MasterCommand), Printed(WorkerCommand),
     <<"You", " ", "can", " ", "now", " ", "join", " ", "any", " ", "number",
       " ", "of", " ", "control-plane", " ", "nodes">>,
     <<"Then", " ", "run", " ", "the", " ", "following", " ", "as", " ",
       "root:">>}

RECURSIVE JoinLines(_)
JoinLines(ls) ==
    IF ls = <<>> THEN <<>> ELSE Head(ls) \o <<"\n", "\n">> \o JoinLines(Tail(ls))

InitJoin ==
    /\ pc = "extract"
    /\ \E ls \in SeqsUpTo(Lines, MaxLines) : output = JoinLines(ls)
    /\ containerd = NoValue /\ loop = NoValue /\ events = <<>>
    /\ ret = NoValue
    /\ RegIdle /\ CniIdle /\ CriIdle

ExtractJoinCommands ==
    /\ pc = "extract"
    /\ ret' = extractJoinCommands(output)
    /\ pc' = "extracted"
    /\ UNCHANGED <<regVars, cniVars, criVars, k8sVars>>

NextJoin == ExtractJoinCommands

SpecJoin == InitJoin /\ [][NextJoin]_vars

\* how often the printed command occurs in the output
RECURSIVE Occurrences(_, _)
Occurrences(out, printed) ==
    IF Len(out) < Len(printed) THEN 0
    ELSE (IF SubSeq(out, 1, Len(printed)) = printed
             /\ (Len(out) = Len(printed) \/ out[Len(printed) + 1] = "\n")
          THEN 1 ELSE 0)
         + Occurrences(Tail(out), printed)

\* C10: from output with one control-plane join command and one worker join
\* command, in either order, master is exactly the control-plane command and
\* worker exactly the worker command; a pattern without a match gives the
\* empty string; worker never contains --control-plane.
C10_JoinCommandsExtracted ==
    pc = "extracted" =>
        /\ (Occurrences(output, Printed(MasterCommand)) = 1
              /\ Occurrences(output, Printed(WorkerCommand)) = 1) =>
                 ret.master = MasterCommand /\ ret.worker = WorkerCommand
        /\ ~MatchMaster(sanitizeCommand(output), 1).found => ret.master = <<>>
        /\ ~MatchWorker(sanitizeCommand(output), 1).found => ret.worker = <<>>
        /\ ~ContainsWord(ret.worker, "--control-plane")

=============================================================================
